---------------------------- MODULE Spec2Model ----------------------------
(***************************************************************************)
(* Model of the onlinecourse Django application (views.py, models.py):     *)
(* registration, login, enrollment, exam submission and exam scoring.      *)
(* The persistent store is the set of table rows; every view handler is    *)
(* one action.  For the concurrency of enroll the handler is also given    *)
(* statement by statement (SpecConc).                                      *)
(***************************************************************************)
EXTENDS Integers, Sequences, FiniteSets, TLC

VARIABLES
    users,              \* auth user table: rows [id, username, password, first_name, last_name]
    session,            \* id of the user logged in on the browser session, or None
    total_enrollment,   \* Course table: course id -> Course.total_enrollment
    grade,              \* Question table: question id -> Question.grade
    is_correct,         \* Choice table: choice id -> Choice.is_correct
    enrollments,        \* Enrollment table: rows [id, user, course, mode]
    submissions,        \* Submission table: rows [id, enrollment, choices]
    request,            \* the request handled last
    response,           \* the response to it
    pc,                 \* worker -> position inside enroll (SpecConc)
    local               \* worker -> local variables of enroll (SpecConc)

vars == <<users, session, total_enrollment, grade, is_correct, enrollments,
          submissions, request, response, pc, local>>

persisted == <<users, total_enrollment, grade, is_correct, enrollments, submissions>>

-----------------------------------------------------------------------------
(* Bounds of the model *)

\* most Submission rows the model creates
MaxSubmissions == 2

\* most Enrollment rows the model creates
MaxEnrollments == 2

\* Python's None where an id or a number is expected (primary keys start at 1)
None == 0

\* an absent text (no message, no template, no exception)
NoText == ""

Usernames == {"alice", "bob"}
Passwords == {"pw1", "pw2"}
FirstNames == {"F"}
LastNames == {"L"}
Methods == {"GET", "POST"}
Workers == {"w1", "w2"}

-----------------------------------------------------------------------------
(* Course content: lessons, questions and choices (models.py) *)

\* Lesson.course
lesson_course == (1 :> 1) @@ (2 :> 1) @@ (3 :> 2)

\* Question.lesson
question_lesson == (1 :> 1) @@ (2 :> 1) @@ (3 :> 2) @@ (4 :> 3)

\* Choice.question
choice_question == (1 :> 1) @@ (2 :> 1) @@ (3 :> 1) @@ (4 :> 2) @@ (5 :> 3) @@ (6 :> 4)

Lessons == DOMAIN lesson_course
Questions == DOMAIN question_lesson
Choices == DOMAIN choice_question

\* the grades and correctness flags of the sequential and concurrent specifications
DefaultGrade == (1 :> 10) @@ (2 :> 20) @@ (3 :> 30) @@ (4 :> 10)
DefaultIsCorrect == (1 :> TRUE) @@ (2 :> TRUE) @@ (3 :> FALSE) @@ (4 :> TRUE)
                        @@ (5 :> TRUE) @@ (6 :> TRUE)

\* Question.choices (related_name="choices")
question_choices(q) == {c \in Choices : choice_question[c] = q}

\* Course.get_all_questions: Question.objects.filter(lesson__course=self)
get_all_questions(course_id) ==
    {q \in Questions : lesson_course[question_lesson[q]] = course_id}

-----------------------------------------------------------------------------
(* Principals *)

AnonymousUser == [id |-> None, is_authenticated |-> FALSE]

UserOf(uid) == [id |-> uid, is_authenticated |-> TRUE]

\* request.user of a request made on the browser session
request_user == IF session = None THEN AnonymousUser ELSE UserOf(session)

UserIds == {u.id : u \in users}

\* request.user of a request made by any client
Principals == {AnonymousUser} \cup {UserOf(uid) : uid \in UserIds}

\* the primary key an INSERT into a table gets (no row is ever deleted)
NextId(table) == Cardinality(table) + 1

Courses == DOMAIN total_enrollment

\* course ids a URL can carry: the existing ones and one that does not exist
CourseIdArgs == Courses \cup {Cardinality(Courses) + 1}

SubmissionIdArgs == 1 .. (Cardinality(submissions) + 1)

-----------------------------------------------------------------------------
(* Requests and responses *)

NoRequest == [op |-> "none", method |-> NoText, user |-> AnonymousUser,
              course_id |-> None, submission_id |-> None, POST |-> << >>]

Req(op, method, user, course_id, submission_id, post) ==
    [op |-> op, method |-> method, user |-> user, course_id |-> course_id,
     submission_id |-> submission_id, POST |-> post]

NoResponse == [kind |-> "none", target |-> NoText, args |-> << >>,
               message |-> NoText, context |-> << >>]

Render(template, message, context) ==
    [kind |-> "render", target |-> template, args |-> << >>,
     message |-> message, context |-> context]

Redirect(viewname, args) ==
    [kind |-> "redirect", target |-> viewname, args |-> args,
     message |-> NoText, context |-> << >>]

\* get_object_or_404 found no row
NotFound == [kind |-> "not_found", target |-> NoText, args |-> << >>,
             message |-> NoText, context |-> << >>]

\* an exception no handler catches
ServerError(exception) ==
    [kind |-> "server_error", target |-> NoText, args |-> << >>,
     message |-> exception, context |-> << >>]

\* the Course object a handler holds: the row as it was when it was loaded
CourseObject(course_id, total) == [id |-> course_id, total_enrollment |-> total]

NoLocal == [user |-> AnonymousUser, course |-> CourseObject(None, 0),
            is_enrolled |-> FALSE, response |-> NoResponse]

-----------------------------------------------------------------------------
(* Initial state: empty user, enrollment and submission tables *)

Init ==
    /\ users = {}
    /\ session = None
    /\ total_enrollment = [c \in {1, 2} |-> 0]
    /\ grade = DefaultGrade
    /\ is_correct = DefaultIsCorrect
    /\ enrollments = {}
    /\ submissions = {}
    /\ request = NoRequest
    /\ response = NoResponse
    /\ pc = [w \in Workers |-> "idle"]
    /\ local = [w \in Workers |-> NoLocal]

-----------------------------------------------------------------------------
(* Registration, login, logout (views.py) *)

\* the lookup done by primary key instead of by username
user_exist_by_id(username) == \E u \in users : u.id = 1 /\ u.username = username

\* User.objects.get(username=username) succeeded
user_exist(username) == \E u \in users : u.username = username

\* authenticate(username, password): the user id, or None
authenticate(username, password) ==
    IF \E u \in users : u.username = username /\ u.password = password
    THEN (CHOOSE u \in users : u.username = username /\ u.password = password).id
    ELSE None

\* the registration form's fields
RegistrationForm(username, psw, firstname, lastname) ==
    [username |-> username, psw |-> psw, firstname |-> firstname, lastname |-> lastname]

registration_request(method, username, psw, firstname, lastname) ==
    /\ request' = Req("registration_request", method, request_user, None, None,
                      IF method = "POST"
                      THEN RegistrationForm(username, psw, firstname, lastname)
                      ELSE << >>)
    /\ IF method = "GET"
       THEN /\ response' = Render("user_registration_bootstrap.html", NoText, << >>)
            /\ UNCHANGED <<users, session>>
       ELSE IF ~user_exist(username)
            THEN /\ users' = users \cup
                        {[id |-> NextId(users), username |-> username, password |-> psw,
                          first_name |-> firstname, last_name |-> lastname]}
                 /\ session' = NextId(users)
                 /\ response' = Redirect("index", << >>)
            ELSE /\ response' = Render("user_registration_bootstrap.html",
                                       "User already exists.", << >>)
                 /\ UNCHANGED <<users, session>>
    /\ UNCHANGED <<total_enrollment, grade, is_correct, enrollments, submissions,
                   pc, local>>

login_request(method, username, psw) ==
    /\ request' = Req("login_request", method, request_user, None, None,
                      IF method = "POST"
                      THEN [username |-> username, psw |-> psw]
                      ELSE << >>)
    /\ IF method = "POST"
       THEN LET user == authenticate(username, psw)
            IN  IF user # None
                THEN /\ session' = user
                     /\ response' = Redirect("index", << >>)
                ELSE /\ response' = Render("user_login_bootstrap.html",
                                           "Invalid username or password.", << >>)
                     /\ UNCHANGED session
       ELSE /\ response' = Render("user_login_bootstrap.html", NoText, << >>)
            /\ UNCHANGED session
    /\ UNCHANGED <<users, total_enrollment, grade, is_correct, enrollments,
                   submissions, pc, local>>

logout_request ==
    /\ request' = Req("logout_request", "GET", request_user, None, None, << >>)
    /\ session' = None
    /\ response' = Redirect("index", << >>)
    /\ UNCHANGED <<users, total_enrollment, grade, is_correct, enrollments,
                   submissions, pc, local>>

-----------------------------------------------------------------------------
(* Enrollment (views.py) *)

\* Enrollment.objects.filter(user=user, course=course)
EnrollmentsOf(user_id, course_id) ==
    {e \in enrollments : e.user = user_id /\ e.course = course_id}

\* the comparison of the count off by one
check_if_enrolled_off_by_one(user, course_id) ==
    IF user.id # None
    THEN Cardinality(EnrollmentsOf(user.id, course_id)) > 1
    ELSE FALSE

check_if_enrolled(user, course_id) ==
    IF user.id # None
    THEN Cardinality(EnrollmentsOf(user.id, course_id)) > 0
    ELSE FALSE

\* the condition without the test of is_enrolled
ShouldEnroll_unchecked(is_enrolled, user) == user.is_authenticated

\* the condition without the test of is_authenticated
ShouldEnroll_unauthenticated(is_enrolled, user) == ~is_enrolled

\* the condition of the if statement of enroll
ShouldEnroll(is_enrolled, user) == ~is_enrolled /\ user.is_authenticated

\* Enrollment.objects.create(user=user, course=course, mode="honor")
NewEnrollment(user, course_id) ==
    [id |-> NextId(enrollments), user |-> user.id, course |-> course_id, mode |-> "honor"]

\* the counter incremented in the database (an F expression) instead of in the handler
SavedTotal_atomic(loaded, stored) == stored + 1

\* course.total_enrollment += 1; course.save(): the value written to the Course row,
\* from the value the handler loaded and the value stored at the time of the save
SavedTotal(loaded, stored) == loaded + 1

\* user is request.user
enroll(user, course_id) ==
    /\ request' = Req("enroll", "POST", user, course_id, None, << >>)
    /\ IF course_id \notin Courses
       THEN /\ response' = NotFound
            /\ UNCHANGED <<enrollments, total_enrollment>>
       ELSE LET loaded == total_enrollment[course_id]
                is_enrolled == check_if_enrolled(user, course_id)
            IN  /\ IF ShouldEnroll(is_enrolled, user)
                   THEN /\ Cardinality(enrollments) < MaxEnrollments
                        /\ enrollments' = enrollments \cup {NewEnrollment(user, course_id)}
                        /\ total_enrollment' =
                              [total_enrollment EXCEPT
                                  ![course_id] = SavedTotal(loaded, total_enrollment[course_id])]
                   ELSE UNCHANGED <<enrollments, total_enrollment>>
                /\ response' = Redirect("course_details", <<course_id>>)
    /\ UNCHANGED <<users, session, grade, is_correct, submissions, pc, local>>

\* the slice [:10] of CourseListView.get_queryset
ListLimit == 10

Min(a, b) == IF a < b THEN a ELSE b

\* Course.objects.order_by("-total_enrollment")[:10]: the orders the database may
\* return (rows of equal total_enrollment come in any order)
OrderedCourses ==
    LET n == Min(ListLimit, Cardinality(Courses))
    IN  {o \in [1 .. n -> Courses] :
            /\ \A i, j \in 1 .. n : i # j => o[i] # o[j]
            /\ \A i, j \in 1 .. n : i < j => total_enrollment[o[i]] >= total_enrollment[o[j]]
            /\ \A c \in Courses : (\A i \in 1 .. n : o[i] # c) =>
                  \A i \in 1 .. n : total_enrollment[o[i]] >= total_enrollment[c]}

\* Course.is_enrolled, a class attribute that is False until get_queryset sets it
is_enrolled_default == FALSE

CourseListView_get_queryset ==
    /\ request' = Req("course_list", "GET", request_user, None, None, << >>)
    /\ \E o \in OrderedCourses :
          LET user == request_user
          IN  response' = Render("course_list_bootstrap.html", NoText,
                  [course_list |->
                      [i \in DOMAIN o |->
                          [id |-> o[i],
                           total_enrollment |-> total_enrollment[o[i]],
                           is_enrolled |-> IF user.is_authenticated
                                           THEN check_if_enrolled(user, o[i])
                                           ELSE is_enrolled_default]]])
    /\ UNCHANGED <<users, session, total_enrollment, grade, is_correct, enrollments,
                   submissions, pc, local>>

\* CourseDetailView: the course of the primary key in the URL
CourseDetailView(course_id) ==
    /\ request' = Req("course_details", "GET", request_user, course_id, None, << >>)
    /\ response' = IF course_id \in Courses
                   THEN Render("course_detail_bootstrap.html", NoText,
                               [course |-> course_id])
                   ELSE NotFound
    /\ UNCHANGED <<users, session, total_enrollment, grade, is_correct, enrollments,
                   submissions, pc, local>>

-----------------------------------------------------------------------------
(* Exam submission (views.py).  A text is the sequence of its characters. *)

choice_prefix == <<"c", "h", "o", "i", "c", "e">>

\* str.startswith
startswith(key, prefix) ==
    /\ Len(key) >= Len(prefix)
    /\ SubSeq(key, 1, Len(prefix)) = prefix

DigitValue == ("0" :> 0) @@ ("1" :> 1) @@ ("2" :> 2) @@ ("3" :> 3) @@ ("4" :> 4)
                @@ ("5" :> 5) @@ ("6" :> 6) @@ ("7" :> 7) @@ ("8" :> 8) @@ ("9" :> 9)

\* int(value) raises ValueError unless the text is a decimal numeral
is_numeral(value) ==
    /\ Len(value) > 0
    /\ \A i \in 1 .. Len(value) : value[i] \in DOMAIN DigitValue

RECURSIVE int(_)
\* int(value) of a decimal numeral
int(value) ==
    IF Len(value) = 0
    THEN 0
    ELSE 10 * int(SubSeq(value, 1, Len(value) - 1)) + DigitValue[value[Len(value)]]

\* every key read
ChoiceKeys_unfiltered(post) == DOMAIN post

\* the keys of request.POST that extract_answers reads
ChoiceKeys(post) == {key \in DOMAIN post : startswith(key, choice_prefix)}

\* extract_answers: the ids collected (add(*answers) takes them as a set), or the
\* ValueError of int
extract_answers(post) ==
    IF \A key \in ChoiceKeys(post) : is_numeral(post[key])
    THEN [raised |-> NoText, answers |-> {int(post[key]) : key \in ChoiceKeys(post)}]
    ELSE [raised |-> "ValueError", answers |-> {}]

\* the keys of the fields of the exam forms: two that start with "choice" and one
\* that does not
choice_1 == <<"c", "h", "o", "i", "c", "e", "_", "1">>
choice_2 == <<"c", "h", "o", "i", "c", "e", "_", "2">>
other_key == <<"x", "c", "h", "o", "i", "c", "e">>

FormKeys == {choice_1, choice_2, other_key}

\* the fields a form carries or not
OptionalKeys == {choice_1, choice_2}

\* the values of each field: the ids of a choice of course 1 ("1", "03") and of
\* course 2 ("06"), the id of no choice ("9"), and no numeral ("x")
FormValues(key) ==
    IF key = choice_1 THEN {<<"1">>}
    ELSE IF key = choice_2 THEN {<<"0", "6">>, <<"9">>, <<"x">>}
    ELSE {<<"0", "3">>}

\* every exam form carries the field that is no choice
ExamForms ==
    UNION {{post \in [K \cup {other_key} -> UNION {FormValues(k) : k \in FormKeys}] :
                \A k \in DOMAIN post : post[k] \in FormValues(k)} : K \in SUBSET OptionalKeys}

\* the first row of the query, or None, instead of get
get_enrollment_first(user, course_id) ==
    IF user.id = None
    THEN [raised |-> "TypeError", id |-> None]
    ELSE IF EnrollmentsOf(user.id, course_id) = {}
         THEN [raised |-> NoText, id |-> None]
         ELSE [raised |-> NoText,
               id |-> (CHOOSE e \in EnrollmentsOf(user.id, course_id) : TRUE).id]

\* Enrollment.objects.get(user=user, course=course): the exception it raises, or the
\* id of the one row it returns
get_enrollment(user, course_id) ==
    IF user.id = None
    THEN [raised |-> "TypeError", id |-> None]
    ELSE IF EnrollmentsOf(user.id, course_id) = {}
         THEN [raised |-> "DoesNotExist", id |-> None]
         ELSE IF Cardinality(EnrollmentsOf(user.id, course_id)) > 1
              THEN [raised |-> "MultipleObjectsReturned", id |-> None]
              ELSE [raised |-> NoText,
                    id |-> (CHOOSE e \in EnrollmentsOf(user.id, course_id) : TRUE).id]

\* submission.choices.add(*answers): the rows of the join table reference Choice rows
add_raises(answers) == IF answers \subseteq Choices THEN NoText ELSE "IntegrityError"

\* user is request.user; request.POST is read by extract_answers only, so the form
\* is drawn where the handler reads it
submit(user, course_id) ==
    IF course_id \notin Courses
    THEN /\ request' = Req("submit", "POST", user, course_id, None, << >>)
         /\ response' = NotFound
         /\ UNCHANGED <<users, session, total_enrollment, grade, is_correct, enrollments,
                        submissions, pc, local>>
    ELSE LET enrollment == get_enrollment(user, course_id)
         IN  IF enrollment.raised # NoText
             THEN /\ request' = Req("submit", "POST", user, course_id, None, << >>)
                  /\ response' = ServerError(enrollment.raised)
                  /\ UNCHANGED <<users, session, total_enrollment, grade, is_correct,
                                 enrollments, submissions, pc, local>>
             ELSE \E post \in ExamForms :
                     LET id == NextId(submissions)
                         extracted == extract_answers(post)
                         stored == IF extracted.raised = NoText
                                      /\ add_raises(extracted.answers) = NoText
                                   THEN extracted.answers
                                   ELSE {}
                     IN  /\ Cardinality(submissions) < MaxSubmissions
                         /\ request' = Req("submit", "POST", user, course_id, None, post)
                         /\ submissions' = submissions \cup
                                {[id |-> id, enrollment |-> enrollment.id, choices |-> stored]}
                         /\ response' =
                                IF extracted.raised # NoText
                                THEN ServerError(extracted.raised)
                                ELSE IF add_raises(extracted.answers) # NoText
                                     THEN ServerError(add_raises(extracted.answers))
                                     ELSE Redirect("exam_result", <<course_id, id>>)
                         /\ UNCHANGED <<users, session, total_enrollment, grade, is_correct,
                                        enrollments, pc, local>>

-----------------------------------------------------------------------------
(* Exam scoring (models.py, views.py) *)

\* the selection compared with the correct choices for equality
is_get_score_exact(q, selected_ids) ==
    {c \in question_choices(q) : is_correct[c]}
        = {c \in question_choices(q) : c \in selected_ids}

\* a question without correct choice never scored
is_get_score_some_correct(q, selected_ids) ==
    /\ {c \in question_choices(q) : is_correct[c]} # {}
    /\ {c \in question_choices(q) : is_correct[c]} \subseteq selected_ids

\* Question.is_get_score(selected_ids)
is_get_score(q, selected_ids) ==
    LET all_answers == Cardinality({c \in question_choices(q) : is_correct[c]})
        selected_correct ==
            Cardinality({c \in question_choices(q) : is_correct[c] /\ c \in selected_ids})
    IN  all_answers = selected_correct

RECURSIVE SumGrade(_)
\* all_questions.aggregate(sum_grade=Sum("grade")) over a non-empty set of questions
SumGrade(qs) ==
    IF qs = {}
    THEN 0
    ELSE LET q == CHOOSE x \in qs : TRUE
         IN  grade[q] + SumGrade(qs \ {q})

\* selected_choices.filter(question=q)
selected_of(selected_choices, q) == {c \in selected_choices : choice_question[c] = q}

\* the loop of show_exam_result
total_score(course_id, selected_choices) ==
    SumGrade({q \in get_all_questions(course_id) :
                 is_get_score(q, selected_of(selected_choices, q))})

\* the quotient taken before the multiplication
percent_score_quotient_first(score_sum, sum_grade) == (score_sum \div sum_grade) * 100

\* total_score * 100 // total_grade["sum_grade"]
percent_score(score_sum, sum_grade) == (score_sum * 100) \div sum_grade

show_exam_result(course_id, submission_id) ==
    /\ request' = Req("show_exam_result", "GET", request_user, course_id, submission_id, << >>)
    /\ IF course_id \notin Courses \/ submission_id \notin {s.id : s \in submissions}
       THEN response' = NotFound
       ELSE LET submission == CHOOSE s \in submissions : s.id = submission_id
                selected_choices == submission.choices
                all_questions == get_all_questions(course_id)
            IN  IF all_questions = {}
                THEN response' = ServerError("TypeError")
                ELSE IF SumGrade(all_questions) = 0
                     THEN response' = ServerError("ZeroDivisionError")
                     ELSE response' = Render("exam_result_bootstrap.html", NoText,
                              [course |-> course_id,
                               grade |-> percent_score(total_score(course_id, selected_choices),
                                                       SumGrade(all_questions)),
                               selected_ids |-> selected_choices])
    /\ UNCHANGED <<users, session, total_enrollment, grade, is_correct, enrollments,
                   submissions, pc, local>>

\* a direct evaluation of q.is_get_score on the choices of a submission
call_is_get_score(q, selected_ids) ==
    /\ request' = Req("is_get_score", NoText, request_user, None, None, << >>)
    /\ response' = [kind |-> "value", target |-> "is_get_score", args |-> <<q, selected_ids>>,
                    message |-> NoText, context |-> [result |-> is_get_score(q, selected_ids)]]
    /\ UNCHANGED <<users, session, total_enrollment, grade, is_correct, enrollments,
                   submissions, pc, local>>

-----------------------------------------------------------------------------
Next ==
    \/ \E m \in Methods, u \in Usernames, p \in Passwords, f \in FirstNames, l \in LastNames :
          registration_request(m, u, p, f, l)
    \/ \E m \in Methods, u \in Usernames, p \in Passwords : login_request(m, u, p)
    \/ logout_request
    \/ CourseListView_get_queryset
    \/ \E c \in CourseIdArgs : CourseDetailView(c)
    \/ \E c \in CourseIdArgs : enroll(request_user, c)

Spec == Init /\ [][Next]_vars

\* the exam: registrations, enroll requests of the registered users for the existing
\* courses (Spec has the enroll requests of the anonymous user and for a course that
\* does not exist) and submit requests of any client, logged in as one of the
\* registered users or not logged in; every account has the same password
ExamPasswords == {"pw1"}

NextExam ==
    \/ \E u \in Usernames, p \in ExamPasswords, f \in FirstNames, l \in LastNames :
          registration_request("POST", u, p, f, l)
    \/ \E user \in Principals \ {AnonymousUser}, c \in Courses : enroll(user, c)
    \/ \E user \in Principals, c \in CourseIdArgs : submit(user, c)

SpecExam == Init /\ [][NextExam]_vars

-----------------------------------------------------------------------------
(* enroll statement by statement: requests of several clients interleave *)

\* line 219-220: get_object_or_404(Course, pk=course_id); user = request.user
enroll_load(w, user, course_id) ==
    /\ pc[w] \in {"idle", "done"}
    /\ IF course_id \notin Courses
       THEN /\ local' = [local EXCEPT ![w] =
                            [user |-> user, course |-> CourseObject(None, 0),
                             is_enrolled |-> FALSE, response |-> NotFound]]
            /\ pc' = [pc EXCEPT ![w] = "done"]
       ELSE /\ local' = [local EXCEPT ![w] =
                            [user |-> user,
                             course |-> CourseObject(course_id, total_enrollment[course_id]),
                             is_enrolled |-> FALSE, response |-> NoResponse]]
            /\ pc' = [pc EXCEPT ![w] = "check"]
    /\ UNCHANGED <<users, session, total_enrollment, grade, is_correct, enrollments,
                   submissions, request, response>>

\* line 222-224: is_enrolled = check_if_enrolled(user, course), and the if statement
enroll_check(w) ==
    /\ pc[w] = "check"
    /\ LET is_enrolled == check_if_enrolled(local[w].user, local[w].course.id)
       IN  /\ local' = [local EXCEPT ![w].is_enrolled = is_enrolled]
           /\ pc' = [pc EXCEPT ![w] =
                        IF ShouldEnroll(is_enrolled, local[w].user)
                        THEN "create" ELSE "respond"]
    /\ UNCHANGED <<users, session, total_enrollment, grade, is_correct, enrollments,
                   submissions, request, response>>

\* line 226: Enrollment.objects.create(user=user, course=course, mode="honor")
enroll_create(w) ==
    /\ pc[w] = "create"
    /\ Cardinality(enrollments) < MaxEnrollments
    /\ enrollments' = enrollments \cup {NewEnrollment(local[w].user, local[w].course.id)}
    /\ pc' = [pc EXCEPT ![w] = "save"]
    /\ UNCHANGED <<users, session, total_enrollment, grade, is_correct, submissions,
                   request, response, local>>

\* line 227-228: course.total_enrollment += 1; course.save()
enroll_save(w) ==
    /\ pc[w] = "save"
    /\ LET c == local[w].course.id
       IN  /\ total_enrollment' =
                [total_enrollment EXCEPT
                    ![c] = SavedTotal(local[w].course.total_enrollment, total_enrollment[c])]
           /\ local' = [local EXCEPT ![w].course.total_enrollment = @ + 1]
    /\ pc' = [pc EXCEPT ![w] = "respond"]
    /\ UNCHANGED <<users, session, grade, is_correct, enrollments, submissions,
                   request, response>>

\* line 230-232: the redirect to the course detail page
enroll_respond(w) ==
    /\ pc[w] = "respond"
    /\ local' = [local EXCEPT ![w].response =
                    Redirect("course_details", <<local[w].course.id>>)]
    /\ pc' = [pc EXCEPT ![w] = "done"]
    /\ UNCHANGED <<users, session, total_enrollment, grade, is_correct, enrollments,
                   submissions, request, response>>

NextConc ==
    \/ \E u \in Usernames, p \in ExamPasswords, f \in FirstNames, l \in LastNames :
          registration_request("POST", u, p, f, l)
    \/ \E w \in Workers, user \in Principals, c \in CourseIdArgs : enroll_load(w, user, c)
    \/ \E w \in Workers : enroll_check(w)
    \/ \E w \in Workers : enroll_create(w)
    \/ \E w \in Workers : enroll_save(w)
    \/ \E w \in Workers : enroll_respond(w)

SpecConc == Init /\ [][NextConc]_vars

-----------------------------------------------------------------------------
(* Scoring over all grades, correctness flags and selections *)

Grades == {0, 10, 20, 30}

\* the choices whose correctness flag varies: those of question 1
FlaggedChoices == question_choices(1)

\* alice is enrolled in course 1 and has made one submission; course 3 has no lesson
InitScore ==
    /\ users = {[id |-> 1, username |-> "alice", password |-> "pw1",
                 first_name |-> "F", last_name |-> "L"]}
    /\ session = 1
    /\ total_enrollment = (1 :> 1) @@ (2 :> 0) @@ (3 :> 0)
    /\ grade \in {g \in [Questions -> Grades] : g[4] = DefaultGrade[4]}
    /\ is_correct \in {f \in [Choices -> BOOLEAN] :
                          \A c \in Choices \ FlaggedChoices : f[c] = DefaultIsCorrect[c]}
    /\ enrollments = {[id |-> 1, user |-> 1, course |-> 1, mode |-> "honor"]}
    /\ \E selected \in SUBSET Choices :
          submissions = {[id |-> 1, enrollment |-> 1, choices |-> selected]}
    /\ request = NoRequest
    /\ response = NoResponse
    /\ pc = [w \in Workers |-> "idle"]
    /\ local = [w \in Workers |-> NoLocal]

NextScore ==
    \/ \E c \in CourseIdArgs, s \in SubmissionIdArgs : show_exam_result(c, s)
    \/ \E q \in Questions, s \in submissions : call_is_get_score(q, s.choices)

SpecScore == InitScore /\ [][NextScore]_vars

-----------------------------------------------------------------------------
(* Enrollment and registration, one request at a time (Spec) *)

EnrollmentsOfCourse(course_id) == {e \in enrollments : e.course = course_id}

\* the step is an enroll request of an authenticated user for an existing course
EnrollStep ==
    /\ request'.op = "enroll"
    /\ request'.course_id \in Courses
    /\ request'.user.is_authenticated

C1_Rows ==
    \A c \in Courses :
        /\ \A u \in UserIds : Cardinality(EnrollmentsOf(u, c)) <= 1
        /\ total_enrollment[c] = Cardinality(EnrollmentsOfCourse(c))

C1_Step ==
    EnrollStep =>
        LET u == request'.user.id
            c == request'.course_id
        IN  IF EnrollmentsOf(u, c) # {}
            THEN enrollments' = enrollments /\ total_enrollment' = total_enrollment
            ELSE /\ Cardinality(enrollments') = Cardinality(enrollments) + 1
                 /\ total_enrollment' = [total_enrollment EXCEPT ![c] = @ + 1]

\* C1: with enroll requests handled one at a time there is at most one Enrollment
\* row per user and course and total_enrollment of a course counts its rows; an
\* enroll of an enrolled user creates no row and leaves total_enrollment as it is,
\* a first enroll creates one row and adds one to the counter of that course only.
C1_EnrollIdempotent == [](C1_Rows) /\ [][C1_Step]_vars

\* a second enroll of a user for a course: the row of the pair is older than the
\* newest row of the table, and the request was answered
C1_Witness ==
    /\ request.op = "enroll"
    /\ response.kind = "redirect"
    /\ \E e \in enrollments :
          /\ e.user = request.user.id
          /\ e.course = request.course_id
          /\ e.id < Cardinality(enrollments)

\* C2: check_if_enrolled(u, c) is true exactly when an Enrollment row of that user
\* and that course exists, and false for the anonymous user; the course list shows
\* that value for every course.
C2_CheckIfEnrolled ==
    /\ \A c \in Courses :
          /\ \A u \in UserIds :
                check_if_enrolled(UserOf(u), c)
                    <=> (\E e \in enrollments : e.user = u /\ e.course = c)
          /\ ~check_if_enrolled(AnonymousUser, c)
    /\ \A e \in enrollments : e.user \in UserIds
    /\ (request.op = "course_list" /\ request.user.is_authenticated) =>
          \A i \in DOMAIN response.context.course_list :
              response.context.course_list[i].is_enrolled
                  <=> (\E e \in enrollments :
                          /\ e.user = request.user.id
                          /\ e.course = response.context.course_list[i].id)

\* the course list of an authenticated user shows an enrolled and a not enrolled course
C2_Witness ==
    /\ request.op = "course_list"
    /\ request.user.is_authenticated
    /\ \E i, j \in DOMAIN response.context.course_list :
          /\ response.context.course_list[i].is_enrolled
          /\ ~response.context.course_list[j].is_enrolled

\* the step is an enroll request of the anonymous user for an existing course
AnonymousEnrollStep ==
    /\ request'.op = "enroll"
    /\ request'.course_id \in Courses
    /\ ~request'.user.is_authenticated

\* C3: an enroll request of an unauthenticated caller for an existing course creates
\* no Enrollment row, changes no persisted state and no session, raises nothing and
\* redirects to the course detail page.
C3_AnonymousEnroll ==
    [][AnonymousEnrollStep =>
          /\ UNCHANGED <<persisted, session>>
          /\ response' = Redirect("course_details", <<request'.course_id>>)]_vars

\* an enroll request of the anonymous user was answered
C3_Witness ==
    /\ request.op = "enroll"
    /\ ~request.user.is_authenticated
    /\ request.course_id \in Courses
    /\ response = Redirect("course_details", <<request.course_id>>)
    /\ enrollments # {}

\* the step is a registration POST whose username is taken
TakenRegistrationStep ==
    /\ request'.op = "registration_request"
    /\ request'.method = "POST"
    /\ \E u \in users : u.username = request'.POST.username

C8_UniqueUsernames == \A u1, u2 \in users : u1.username = u2.username => u1 = u2

-----------------------------------------------------------------------------
(* Scoring (SpecScore) *)

CorrectChoices(q) == {c \in question_choices(q) : is_correct[c]}

\* C4: is_get_score of a question on a selection is true exactly when every correct
\* choice of the question is selected; selected incorrect choices change nothing, so
\* all choices of the question score and a strict subset of the correct ones does not.
C4_IsGetScore ==
    /\ response.target = "is_get_score" =>
          (response.context.result <=> CorrectChoices(response.args[1]) \subseteq response.args[2])
    /\ \A q \in Questions :
          /\ is_get_score(q, question_choices(q))
          /\ \A S \in SUBSET question_choices(q) :
                /\ S # CorrectChoices(q) /\ S \subseteq CorrectChoices(q) => ~is_get_score(q, S)
                /\ is_get_score(q, S) <=> is_get_score(q, S \ (question_choices(q) \ CorrectChoices(q)))

\* question 1 with two correct choices and an incorrect one scored with all three selected
C4_Witness ==
    /\ response.target = "is_get_score"
    /\ response.args[1] = 1
    /\ response.context.result
    /\ Cardinality(CorrectChoices(1)) = 2
    /\ question_choices(1) \subseteq response.args[2]

\* the questions of a course whose correct choices are all among the selected ones
ScoredQuestions(course_id, selected) ==
    {q \in get_all_questions(course_id) : CorrectChoices(q) \subseteq selected}

\* the last request was show_exam_result for a course and a submission that exist
ResultShown ==
    /\ request.op = "show_exam_result"
    /\ request.course_id \in Courses
    /\ \E s \in submissions : s.id = request.submission_id

\* C5: show_exam_result computes floor(100 * T / G), T the sum of the grades of the
\* scored questions of the course and G the sum of the grades of all its questions;
\* there is no quotient, and no page, when G is 0.
C5_PercentScore ==
    ResultShown =>
        LET s == CHOOSE x \in submissions : x.id = request.submission_id
            T == SumGrade(ScoredQuestions(request.course_id, s.choices))
            G == SumGrade(get_all_questions(request.course_id))
        IN  IF G = 0
            THEN response.kind = "server_error"
            ELSE /\ response.kind = "render"
                 /\ response.context.grade * G <= 100 * T
                 /\ 100 * T < (response.context.grade + 1) * G

\* grades 10, 20 and 30, the questions of 10 and 20 scored and that of 30 not: 50
C5_Witness ==
    /\ ResultShown
    /\ request.course_id = 1
    /\ grade[1] = 10 /\ grade[2] = 20 /\ grade[3] = 30
    /\ LET s == CHOOSE x \in submissions : x.id = request.submission_id
       IN  ScoredQuestions(1, s.choices) = {1, 2}
    /\ response.kind = "render"
    /\ response.context.grade = 50

-----------------------------------------------------------------------------
(* Concurrent enroll requests (SpecConc) *)

\* worker w has answered an enroll request in which it created a row and saved the
\* course
Enrolled(w) ==
    /\ pc[w] = "done"
    /\ local[w].response.kind = "redirect"
    /\ ShouldEnroll(local[w].is_enrolled, local[w].user)

\* two requests of distinct users for one course that loaded the course with the
\* same counter value, that is before either of them saved it
LoadedTogether(p, q) ==
    /\ p # q
    /\ Enrolled(p) /\ Enrolled(q)
    /\ local[p].user # local[q].user
    /\ local[p].course.id = local[q].course.id
    /\ local[p].course.total_enrollment = local[q].course.total_enrollment

\* C6: when the enroll requests of two distinct users for one course both load the
\* course before either saves it, both Enrollment rows exist and total_enrollment is
\* the loaded value plus 1, less than the number of rows of the course.
C6_LostUpdate ==
    \A p, q \in Workers :
        LoadedTogether(p, q) =>
            LET c == local[p].course.id
            IN  /\ EnrollmentsOf(local[p].user.id, c) # {}
                /\ EnrollmentsOf(local[q].user.id, c) # {}
                /\ total_enrollment[c] = local[p].course.total_enrollment
                /\ total_enrollment[c] < Cardinality(EnrollmentsOfCourse(c))

\* both rows of a course were created and its counter is 1
C6_Witness ==
    \E p, q \in Workers :
        /\ LoadedTogether(p, q)
        /\ total_enrollment[local[p].course.id] = 1
        /\ Cardinality(EnrollmentsOfCourse(local[p].course.id)) = 2

-----------------------------------------------------------------------------
(* Exam submission, one request at a time (SpecExam) *)

\* the step is a submit request for an existing course of a user without Enrollment
\* row for it
NotEnrolledSubmitStep ==
    /\ request'.op = "submit"
    /\ request'.course_id \in Courses
    /\ request'.user.is_authenticated
    /\ EnrollmentsOf(request'.user.id, request'.course_id) = {}

\* C7: a submit request for an existing course of a user who has no Enrollment row
\* for it ends in the unhandled DoesNotExist of the lookup, with no Submission row
\* created and no persisted state changed.
C7_SubmitNotEnrolled ==
    [][NotEnrolledSubmitStep =>
          /\ response' = ServerError("DoesNotExist")
          /\ UNCHANGED <<persisted, session>>]_vars

\* a user enrolled in another course only got the lookup error
C7_Witness ==
    /\ request.op = "submit"
    /\ request.user.is_authenticated
    /\ response = ServerError("DoesNotExist")
    /\ EnrollmentsOf(request.user.id, request.course_id) = {}
    /\ \E e \in enrollments : e.user = request.user.id

\* Choice.question.lesson.course
choice_course(c) == lesson_course[question_lesson[choice_question[c]]]

\* C9: every choice of a Submission is a choice of a question of a lesson of the
\* course of the Submission's Enrollment.
C9_ChoicesOfCourse ==
    \A s \in submissions :
        \A e \in enrollments :
            e.id = s.enrollment =>
                \A c \in s.choices : c \in Choices /\ choice_course(c) = e.course

\* the step is a submit request for an existing course of a user enrolled in it
EnrolledSubmitStep ==
    /\ request'.op = "submit"
    /\ request'.course_id \in Courses
    /\ request'.user.is_authenticated
    /\ EnrollmentsOf(request'.user.id, request'.course_id) # {}

\* the integer values of the fields of a form whose key starts with "choice"
IntegerValues(post) ==
    {int(post[key]) : key \in {k \in DOMAIN post :
                                  startswith(k, choice_prefix) /\ is_numeral(post[k])}}

\* every field whose key starts with "choice" holds the id of an existing choice
ChoicesExist(post) ==
    \A key \in DOMAIN post :
        startswith(key, choice_prefix) =>
            is_numeral(post[key]) /\ int(post[key]) \in Choices

\* the step adds one Submission row, of the requesting user's Enrollment for the
\* course and with the given choices, and changes nothing else that is persisted
AddsSubmission(choices) ==
    /\ \E row \in submissions' :
          /\ row \notin submissions
          /\ \A s \in submissions : s.id # row.id
          /\ submissions' = submissions \cup {row}
          /\ \E e \in EnrollmentsOf(request'.user.id, request'.course_id) :
                row.enrollment = e.id
          /\ row.choices = choices
    /\ UNCHANGED <<users, total_enrollment, grade, is_correct, enrollments, session>>

-----------------------------------------------------------------------------
(* The range of the percent score (SpecScore) *)

\* the questions of a course that count: those with a non-zero grade
GradedQuestions(course_id) == {q \in get_all_questions(course_id) : grade[q] # 0}

\* the page of show_exam_result for a course of positive total grade: the percent
\* score is in 0..100, and is 100 exactly when every graded question is scored
C12_Result ==
    (ResultShown /\ SumGrade(get_all_questions(request.course_id)) > 0) =>
        LET s == CHOOSE x \in submissions : x.id = request.submission_id
        IN  /\ response.kind = "render"
            /\ response.context.grade \in 0..100
            /\ (response.context.grade = 100) <=>
                   \A q \in GradedQuestions(request.course_id) :
                       CorrectChoices(q) \subseteq s.choices

\* a show_exam_result request changes no persisted state
C12_Step == (request'.op = "show_exam_result") => UNCHANGED <<persisted, session>>

\* C12: for a course whose questions have a positive total grade and any existing
\* submission, made for that course or not, the percent score of show_exam_result
\* is an integer in 0..100 and is 100 exactly when every question of the course
\* with a non-zero grade has all its correct choices among the submission's choices
\* (a question without correct choice counts as scored); show_exam_result changes
\* no persisted state.
C12_PercentRange == [](C12_Result) /\ [][C12_Step]_vars

\* 100 with a graded question that has no correct choice and a question of grade 0
\* that is not scored
C12_Witness ==
    /\ ResultShown
    /\ request.course_id = 1
    /\ CorrectChoices(1) = {}
    /\ grade[1] # 0 /\ grade[2] = 0 /\ grade[3] # 0
    /\ LET s == CHOOSE x \in submissions : x.id = request.submission_id
       IN  ~(CorrectChoices(2) \subseteq s.choices)
    /\ response.kind = "render"
    /\ response.context.grade = 100

-----------------------------------------------------------------------------
(* Interleaved enroll requests of one user (SpecConc) *)

\* C11: there is at most one Enrollment row for a user and a course, whatever the
\* interleaving of the statements of the enroll requests, and so the lookup of
\* submit (Enrollment.objects.get) finds one row for every enrolled user.
C11_OneEnrollmentPerPair ==
    /\ \A e1, e2 \in enrollments :
          (e1.user = e2.user /\ e1.course = e2.course) => e1 = e2
    /\ \A user \in Principals \ {AnonymousUser}, c \in Courses :
          check_if_enrolled(user, c) => get_enrollment(user, c).raised = NoText

=============================================================================
